---- MODULE Spec2Model ----
(***************************************************************************)
(* Model of rest_friendship.views.FriendViewSet: the REST endpoints that   *)
(* adapt the friendship library (Friend.objects, FriendshipRequest) to     *)
(* HTTP.  The tables User, Friend and FriendshipRequest are the database;  *)
(* every endpoint is one action that reads its inputs, calls the library   *)
(* and leaves the HTTP response in `response`.                             *)
(***************************************************************************)
EXTENDS Integers, Sequences, FiniteSets, TLC

VARIABLES
    User,               \* rows of the user table: [pk, username, email]
    Friend,             \* rows of the Friend table: <<from_user, to_user>>
    FriendshipRequest,  \* rows: [id, from_user, to_user, rejected]
    nextPk,             \* next auto-increment primary key of FriendshipRequest
    response            \* the last HTTP exchange (request inputs and response)

vars == <<User, Friend, FriendshipRequest, nextPk, response>>

db == <<User, Friend, FriendshipRequest, nextPk>>

----------------------------------------------------------------------------
(* Bounds *)

NumUsers == 2

MaxRequestPk == 1

UserPks == 1..NumUsers

Usernames == [p \in UserPks |-> <<"alice", "bob", "carol", "dave", "erin">>[p]]

Emails == {"x@e", "y@e"}

\* values a client can put in a payload: existing ones and ones naming nobody
NameInputs == {Usernames[p] : p \in UserPks} \cup {"nobody"}

EmailInputs == Emails \cup {"none@e"}

PkInputs == 1..(NumUsers + 1)

RequestPkInputs == 1..(MaxRequestPk + 1)

\* settings.REST_FRIENDSHIP["PERMISSION_CLASSES"], imported at line 18
PERMISSION_CLASSES == {"IsAuthenticated"}

----------------------------------------------------------------------------
(* request.data: a dict.  `keys` is the set of keys present; a field whose *)
(* key is absent holds a fixed filler that no code path reads.             *)

Keys == {"username", "to_user", "email", "id"}

Payload(keys, username, to_user, email, id) ==
    [keys |-> keys, username |-> username, to_user |-> to_user,
     email |-> email, id |-> id]

NoData == Payload({}, "nobody", "nobody", "none@e", 1)

\* a key that may be absent: <<FALSE, filler>>, or <<TRUE, v>> for a value v
Optional(values, filler) == {<<FALSE, filler>>} \cup {<<TRUE, v>> : v \in values}

FromOptional(u, t, e, i) ==
    Payload((IF u[1] THEN {"username"} ELSE {}) \cup
            (IF t[1] THEN {"to_user"} ELSE {}) \cup
            (IF e[1] THEN {"email"} ELSE {}) \cup
            (IF i[1] THEN {"id"} ELSE {}),
            u[2], t[2], e[2], i[2])

\* every dict over the four keys with values from the input sets
AllPayloads ==
    {FromOptional(u, t, e, i) :
        u \in Optional(NameInputs, NoData.username),
        t \in Optional(NameInputs, NoData.to_user),
        e \in Optional(EmailInputs, NoData.email),
        i \in Optional(PkInputs, NoData.id)}

\* the dicts that name the user by 'username' alone, and the empty dict
Payloads ==
    {NoData}
    \cup {[NoData EXCEPT !.keys = {"username"}, !.username = n] : n \in NameInputs}

\* dicts for accept_request / reject_request, which read only 'id'
IdPayloads ==
    {NoData} \cup {[NoData EXCEPT !.keys = {"id"}, !.id = i] : i \in RequestPkInputs}

----------------------------------------------------------------------------
(* The friendship library (friendship.models), as the specification        *)
(* describes it: symmetric friend edges, no self-loops, no duplicate       *)
(* requests, request lifecycle accept / reject.                            *)

\* Friend.objects.friends(user): the users with a Friend row pointing to `user`
objects_friends(user) == {f \in UserPks : <<f, user>> \in Friend}

\* Friend.objects.are_friends(user1, user2)
objects_are_friends(user1, user2) == <<user2, user1>> \in Friend

\* Friend.objects.unrejected_requests(user)
objects_unrejected_requests(user) ==
    {r \in FriendshipRequest : r.to_user = user /\ ~r.rejected}

\* Friend.objects.rejected_requests(user)
objects_rejected_requests(user) ==
    {r \in FriendshipRequest : r.to_user = user /\ r.rejected}

\* Friend.objects.sent_requests(user)
objects_sent_requests(user) == {r \in FriendshipRequest : r.from_user = user}

\* Friend.objects.add_friend(from_user, to_user): the exception it raises, or "ok"
objects_add_friend_raises(from_user, to_user) ==
    IF from_user = to_user THEN "ValidationError"
    ELSE IF objects_are_friends(from_user, to_user) THEN "AlreadyFriendsError"
    ELSE IF \E r \in FriendshipRequest :
                r.from_user = from_user /\ r.to_user = to_user
         THEN "AlreadyExistsError"
    ELSE "ok"

\* the FriendshipRequest row add_friend creates when it raises nothing
objects_add_friend_row(from_user, to_user) ==
    [id |-> nextPk, from_user |-> from_user, to_user |-> to_user,
     rejected |-> FALSE]

\* Friend.objects.remove_friend(from_user, to_user): the Friend rows it deletes
objects_remove_friend_rows(from_user, to_user) ==
    {e \in Friend : e[1] \in {from_user, to_user} /\ e[2] \in {from_user, to_user}}

\* FriendshipRequest.accept(): both Friend rows, the request and its reverse deleted
request_accept_Friend(r) ==
    Friend \cup {<<r.from_user, r.to_user>>, <<r.to_user, r.from_user>>}

request_accept_FriendshipRequest(r) ==
    {q \in FriendshipRequest :
        /\ q.id # r.id
        /\ ~(q.from_user = r.to_user /\ q.to_user = r.from_user)}

\* FriendshipRequest.reject(): the row is kept, marked rejected
request_reject_FriendshipRequest(r) ==
    (FriendshipRequest \ {r}) \cup {[r EXCEPT !.rejected = TRUE]}

----------------------------------------------------------------------------
(* The web framework: get_object_or_404, status codes, permission check.   *)

HTTP_200_OK == 200
HTTP_201_CREATED == 201
HTTP_204_NO_CONTENT == 204
HTTP_400_BAD_REQUEST == 400
HTTP_403_FORBIDDEN == 403
HTTP_404_NOT_FOUND == 404
HTTP_500_INTERNAL_SERVER_ERROR == 500

\* get_object_or_404(Model, **filters) over the rows the filters select:
\* one row is returned, none raises Http404, several raise
\* MultipleObjectsReturned (which get_object_or_404 does not catch)
get_object_or_404(matches) ==
    [kind |-> IF matches = {} THEN "Http404"
              ELSE IF Cardinality(matches) = 1 THEN "found"
              ELSE "MultipleObjectsReturned",
     objs |-> matches]

\* the one object of a "found" lookup
TheObject(found) == CHOOSE o \in found.objs : TRUE

\* the HTTP request as a view sees it: request.user, request.data and, for
\* the permission check, the configured permission classes that refuse it
Request(user, data, denied) == [user |-> user, data |-> data, denied |-> denied]

\* the exchange left in `response`: the request (with the pk of the URL, if
\* any), the rows the view's lookup selected, the status, message and body of
\* the answer, and the library calls the view made, in order
Response(op, request, pk, target, status, message, body, calls) ==
    [op |-> op, user |-> request.user, denied |-> request.denied,
     data |-> request.data, pk |-> pk, target |-> target,
     status |-> status, message |-> message, body |-> body, calls |-> calls]

NoResponse ==
    Response("none", Request(1, NoData, {}), {}, {}, HTTP_200_OK, "", {}, <<>>)

\* an exception no view catches: the framework answers 500 and nothing is written
Uncaught(op, request, pk, target, exc, calls) ==
    /\ response' = Response(op, request, pk, target,
                            HTTP_500_INTERNAL_SERVER_ERROR, exc, {}, calls)
    /\ UNCHANGED db

\* Http404 raised by get_object_or_404
NotFound(op, request, pk, calls) ==
    /\ response' = Response(op, request, pk, {},
                            HTTP_404_NOT_FOUND, "Not found.", {}, calls)
    /\ UNCHANGED db

\* the framework refuses the request before any view runs
permission_denied(op, request, pk) ==
    /\ response' = Response(op, request, pk, {}, HTTP_403_FORBIDDEN,
                            "Permission denied.", {}, <<>>)
    /\ UNCHANGED db

----------------------------------------------------------------------------
(* rest_friendship.serializers *)

\* UserSerializer: fields = ('pk', 'username', 'email')
serializer_class(user) ==
    [pk |-> user.pk, username |-> user.username, email |-> user.email]

\* the friendship request serializer: the fields of the library's model
friendshiprequest_serializer_class(r) ==
    [id |-> r.id, from_user |-> r.from_user, to_user |-> r.to_user,
     rejected |-> r.rejected]

UserRow(pk) == CHOOSE u \in User : u.pk = pk

----------------------------------------------------------------------------
(* rest_friendship.views.FriendViewSet *)

\* faulty variant: the view set is left without permission classes
permission_classes_unset == {}

\* permission_classes = PERMISSION_CLASSES
permission_classes == PERMISSION_CLASSES

\* the framework's check before dispatch: every class of permission_classes
\* must grant the request
check_permissions(request) == request.denied \cap permission_classes = {}

\* the exchange of list: the caller's friends, serialized
list_response(request) ==
    LET friend_requests == objects_friends(request.user) IN
    Response("list", request, {}, {}, HTTP_200_OK, "",
             {serializer_class(UserRow(f)) : f \in friend_requests},
             <<"friends">>)

list(request) ==
    /\ response' = list_response(request)
    /\ UNCHANGED db

\* faulty variant: retrieve serializes the user without asking are_friends
retrieve_response_no_check(request, pk) ==
    LET requested_user == get_object_or_404({u \in User : u.pk = pk}) IN
    IF requested_user.kind # "found"
    THEN Response("retrieve", request, {pk}, {}, HTTP_404_NOT_FOUND,
                  "Not found.", {}, <<"friends">>)
    ELSE Response("retrieve", request, {pk}, requested_user.objs, HTTP_200_OK, "",
                  {serializer_class(TheObject(requested_user))},
                  <<"friends">>)

\* the exchange of retrieve
retrieve_response(request, pk) ==
    LET requested_user == get_object_or_404({u \in User : u.pk = pk}) IN
    IF requested_user.kind # "found"
    THEN Response("retrieve", request, {pk}, {}, HTTP_404_NOT_FOUND,
                  "Not found.", {}, <<"friends">>)
    ELSE IF objects_are_friends(request.user, TheObject(requested_user).pk)
    THEN Response("retrieve", request, {pk}, requested_user.objs, HTTP_200_OK, "",
                  {serializer_class(TheObject(requested_user))},
                  <<"friends", "are_friends">>)
    ELSE Response("retrieve", request, {pk}, requested_user.objs,
                  HTTP_400_BAD_REQUEST,
                  "Friend relationship not found for user.", {},
                  <<"friends", "are_friends">>)

retrieve(request, pk) ==
    /\ response' = retrieve_response(request, pk)
    /\ UNCHANGED db

\* faulty variant: 'username' is applied after 'to_user' and overrides it
user_data_of_username_last(data, allow_id) ==
    LET d0 == Payload({}, NoData.username, NoData.to_user, NoData.email, NoData.id)
        d1 == IF "to_user" \in data.keys
              THEN [d0 EXCEPT !.keys = @ \cup {"username"}, !.username = data.to_user]
              ELSE d0
        d2 == IF "username" \in data.keys
              THEN [d1 EXCEPT !.keys = @ \cup {"username"}, !.username = data.username]
              ELSE d1
        d3 == IF "email" \in data.keys
              THEN [d2 EXCEPT !.keys = @ \cup {"email"}, !.email = data.email]
              ELSE d2
        d4 == IF allow_id /\ "id" \in data.keys
              THEN [d3 EXCEPT !.keys = @ \cup {"id"}, !.id = data.id]
              ELSE d3
    IN d4

\* the filter dict user_data, built key by key as lines 53-63 do
user_data_of(data, allow_id) ==
    LET d0 == Payload({}, NoData.username, NoData.to_user, NoData.email, NoData.id)
        d1 == IF "username" \in data.keys
              THEN [d0 EXCEPT !.keys = @ \cup {"username"}, !.username = data.username]
              ELSE d0
        d2 == IF "to_user" \in data.keys
              THEN [d1 EXCEPT !.keys = @ \cup {"username"}, !.username = data.to_user]
              ELSE d1
        d3 == IF "email" \in data.keys
              THEN [d2 EXCEPT !.keys = @ \cup {"email"}, !.email = data.email]
              ELSE d2
        d4 == IF allow_id /\ "id" \in data.keys
              THEN [d3 EXCEPT !.keys = @ \cup {"id"}, !.id = data.id]
              ELSE d3
    IN d4

\* User rows selected by the keyword filters of user_data
filter_User(user_data) ==
    {u \in User :
        /\ "username" \in user_data.keys => u.username = user_data.username
        /\ "email" \in user_data.keys => u.email = user_data.email
        /\ "id" \in user_data.keys => u.pk = user_data.id}

get_user_from_friend_data(data, allow_id) ==
    get_object_or_404(filter_User(user_data_of(data, allow_id)))

requests_response(request) ==
    LET friend_requests == objects_unrejected_requests(request.user) IN
    Response("requests", request, {}, {}, HTTP_200_OK, "",
             {friendshiprequest_serializer_class(r) : r \in friend_requests},
             <<"unrejected_requests">>)

requests(request) ==
    /\ response' = requests_response(request)
    /\ UNCHANGED db

sent_requests_response(request) ==
    LET friend_requests == objects_sent_requests(request.user) IN
    Response("sent_requests", request, {}, {}, HTTP_200_OK, "",
             {friendshiprequest_serializer_class(r) : r \in friend_requests},
             <<"sent_requests">>)

sent_requests(request) ==
    /\ response' = sent_requests_response(request)
    /\ UNCHANGED db

rejected_requests_response(request) ==
    LET friend_requests == objects_rejected_requests(request.user) IN
    Response("rejected_requests", request, {}, {}, HTTP_200_OK, "",
             {friendshiprequest_serializer_class(r) : r \in friend_requests},
             <<"rejected_requests">>)

rejected_requests(request) ==
    /\ response' = rejected_requests_response(request)
    /\ UNCHANGED db

\* faulty variant: the except clause names AlreadyExistsError alone
add_friend_catches_one(request) ==
    LET to_user == get_user_from_friend_data(request.data, FALSE) IN
    IF to_user.kind = "Http404" THEN NotFound("add_friend", request, {}, <<>>)
    ELSE IF to_user.kind # "found"
    THEN Uncaught("add_friend", request, {}, to_user.objs, to_user.kind, <<>>)
    ELSE LET target == TheObject(to_user).pk
             raised == objects_add_friend_raises(request.user, target)
             friend_obj == objects_add_friend_row(request.user, target)
         IN IF raised = "ok"
            THEN /\ nextPk <= MaxRequestPk
                 /\ FriendshipRequest' = FriendshipRequest \cup {friend_obj}
                 /\ nextPk' = nextPk + 1
                 /\ response' = Response("add_friend", request, {}, to_user.objs,
                        HTTP_201_CREATED, "",
                        {friendshiprequest_serializer_class(friend_obj)},
                        <<"add_friend">>)
                 /\ UNCHANGED <<User, Friend>>
            ELSE IF raised \in {"AlreadyExistsError"}
            THEN /\ response' = Response("add_friend", request, {}, to_user.objs,
                        HTTP_400_BAD_REQUEST, raised, {}, <<"add_friend">>)
                 /\ UNCHANGED db
            ELSE Uncaught("add_friend", request, {}, to_user.objs, raised, <<"add_friend">>)

\* faulty variant: add_friend lets the lookup use 'id'
add_friend_allow_id(request) ==
    LET to_user == get_user_from_friend_data(request.data, TRUE) IN
    IF to_user.kind = "Http404" THEN NotFound("add_friend", request, {}, <<>>)
    ELSE IF to_user.kind # "found"
    THEN Uncaught("add_friend", request, {}, to_user.objs, to_user.kind, <<>>)
    ELSE LET target == TheObject(to_user).pk
             raised == objects_add_friend_raises(request.user, target)
             friend_obj == objects_add_friend_row(request.user, target)
         IN IF raised = "ok"
            THEN /\ nextPk <= MaxRequestPk
                 /\ FriendshipRequest' = FriendshipRequest \cup {friend_obj}
                 /\ nextPk' = nextPk + 1
                 /\ response' = Response("add_friend", request, {}, to_user.objs,
                        HTTP_201_CREATED, "",
                        {friendshiprequest_serializer_class(friend_obj)},
                        <<"add_friend">>)
                 /\ UNCHANGED <<User, Friend>>
            ELSE IF raised \in {"AlreadyExistsError", "AlreadyFriendsError"}
            THEN /\ response' = Response("add_friend", request, {}, to_user.objs,
                        HTTP_400_BAD_REQUEST, raised, {}, <<"add_friend">>)
                 /\ UNCHANGED db
            ELSE Uncaught("add_friend", request, {}, to_user.objs, raised, <<"add_friend">>)

\* request.data.get('message', '') only fills the message column of the new
\* row, which no view reads; the column is left out of the rows
add_friend(request) ==
    LET to_user == get_user_from_friend_data(request.data, FALSE) IN
    IF to_user.kind = "Http404" THEN NotFound("add_friend", request, {}, <<>>)
    ELSE IF to_user.kind # "found"
    THEN Uncaught("add_friend", request, {}, to_user.objs, to_user.kind, <<>>)
    ELSE LET target == TheObject(to_user).pk
             raised == objects_add_friend_raises(request.user, target)
             friend_obj == objects_add_friend_row(request.user, target)
         IN IF raised = "ok"
            THEN /\ nextPk <= MaxRequestPk
                 /\ FriendshipRequest' = FriendshipRequest \cup {friend_obj}
                 /\ nextPk' = nextPk + 1
                 /\ response' = Response("add_friend", request, {}, to_user.objs,
                        HTTP_201_CREATED, "",
                        {friendshiprequest_serializer_class(friend_obj)},
                        <<"add_friend">>)
                 /\ UNCHANGED <<User, Friend>>
            ELSE IF raised \in {"AlreadyExistsError", "AlreadyFriendsError"}
            THEN /\ response' = Response("add_friend", request, {}, to_user.objs,
                        HTTP_400_BAD_REQUEST, raised, {}, <<"add_friend">>)
                 /\ UNCHANGED db
            ELSE Uncaught("add_friend", request, {}, to_user.objs, raised, <<"add_friend">>)

\* faulty variant: the result of Friend.objects.remove_friend is ignored
remove_friend_always_deleted(request) ==
    LET to_user == get_user_from_friend_data(request.data, TRUE) IN
    IF to_user.kind = "Http404" THEN NotFound("remove_friend", request, {}, <<>>)
    ELSE IF to_user.kind # "found"
    THEN Uncaught("remove_friend", request, {}, to_user.objs, to_user.kind, <<>>)
    ELSE LET rows == objects_remove_friend_rows(request.user, TheObject(to_user).pk)
         IN IF rows # {}
            THEN /\ Friend' = Friend \ rows
                 /\ response' = Response("remove_friend", request, {}, to_user.objs,
                        HTTP_204_NO_CONTENT, "Friend deleted.", {},
                        <<"remove_friend">>)
                 /\ UNCHANGED <<User, FriendshipRequest, nextPk>>
            ELSE /\ response' = Response("remove_friend", request, {}, to_user.objs,
                        HTTP_204_NO_CONTENT, "Friend deleted.", {},
                        <<"remove_friend">>)
                 /\ UNCHANGED db

remove_friend(request) ==
    LET to_user == get_user_from_friend_data(request.data, TRUE) IN
    IF to_user.kind = "Http404" THEN NotFound("remove_friend", request, {}, <<>>)
    ELSE IF to_user.kind # "found"
    THEN Uncaught("remove_friend", request, {}, to_user.objs, to_user.kind, <<>>)
    ELSE LET rows == objects_remove_friend_rows(request.user, TheObject(to_user).pk)
         IN IF rows # {}
            THEN /\ Friend' = Friend \ rows
                 /\ response' = Response("remove_friend", request, {}, to_user.objs,
                        HTTP_204_NO_CONTENT, "Friend deleted.", {},
                        <<"remove_friend">>)
                 /\ UNCHANGED <<User, FriendshipRequest, nextPk>>
            ELSE /\ response' = Response("remove_friend", request, {}, to_user.objs,
                        HTTP_400_BAD_REQUEST, "Friend not found.", {},
                        <<"remove_friend">>)
                 /\ UNCHANGED db

\* FriendshipRequest rows with pk = request.data.get('id', None)
filter_FriendshipRequest(data) ==
    {r \in FriendshipRequest : "id" \in data.keys /\ r.id = data.id}

\* faulty variant: the recipient check is missing
accept_request_any_user(request) ==
    LET found == get_object_or_404(filter_FriendshipRequest(request.data)) IN
    IF found.kind # "found" THEN NotFound("accept_request", request, {}, <<>>)
    ELSE LET friendship_request == TheObject(found) IN
         IF FALSE
         THEN /\ response' = Response("accept_request", request, {}, found.objs,
                     HTTP_400_BAD_REQUEST, "Request for current user not found.",
                     {}, <<>>)
              /\ UNCHANGED db
         ELSE /\ Friend' = request_accept_Friend(friendship_request)
              /\ FriendshipRequest' = request_accept_FriendshipRequest(friendship_request)
              /\ response' = Response("accept_request", request, {}, found.objs,
                     HTTP_201_CREATED, "Request accepted, user added to friends.",
                     {}, <<"accept">>)
              /\ UNCHANGED <<User, nextPk>>

\* faulty variant: accept_request calls reject()
accept_request_calls_reject(request) ==
    LET found == get_object_or_404(filter_FriendshipRequest(request.data)) IN
    IF found.kind # "found" THEN NotFound("accept_request", request, {}, <<>>)
    ELSE LET friendship_request == TheObject(found) IN
         IF ~(friendship_request.to_user = request.user)
         THEN /\ response' = Response("accept_request", request, {}, found.objs,
                     HTTP_400_BAD_REQUEST, "Request for current user not found.",
                     {}, <<>>)
              /\ UNCHANGED db
         ELSE /\ FriendshipRequest' = request_reject_FriendshipRequest(friendship_request)
              /\ response' = Response("accept_request", request, {}, found.objs,
                     HTTP_201_CREATED, "Request accepted, user added to friends.",
                     {}, <<"reject">>)
              /\ UNCHANGED <<User, Friend, nextPk>>

accept_request(request) ==
    LET found == get_object_or_404(filter_FriendshipRequest(request.data)) IN
    IF found.kind # "found" THEN NotFound("accept_request", request, {}, <<>>)
    ELSE LET friendship_request == TheObject(found) IN
         IF ~(friendship_request.to_user = request.user)
         THEN /\ response' = Response("accept_request", request, {}, found.objs,
                     HTTP_400_BAD_REQUEST, "Request for current user not found.",
                     {}, <<>>)
              /\ UNCHANGED db
         ELSE /\ Friend' = request_accept_Friend(friendship_request)
              /\ FriendshipRequest' = request_accept_FriendshipRequest(friendship_request)
              /\ response' = Response("accept_request", request, {}, found.objs,
                     HTTP_201_CREATED, "Request accepted, user added to friends.",
                     {}, <<"accept">>)
              /\ UNCHANGED <<User, nextPk>>

\* faulty variant: reject_request calls accept()
reject_request_calls_accept(request) ==
    LET found == get_object_or_404(filter_FriendshipRequest(request.data)) IN
    IF found.kind # "found" THEN NotFound("reject_request", request, {}, <<>>)
    ELSE LET friendship_request == TheObject(found) IN
         IF ~(friendship_request.to_user = request.user)
         THEN /\ response' = Response("reject_request", request, {}, found.objs,
                     HTTP_400_BAD_REQUEST, "Request for current user not found.",
                     {}, <<>>)
              /\ UNCHANGED db
         ELSE /\ Friend' = request_accept_Friend(friendship_request)
              /\ FriendshipRequest' = request_accept_FriendshipRequest(friendship_request)
              /\ response' = Response("reject_request", request, {}, found.objs,
                     HTTP_201_CREATED, "Request rejected, user NOT added to friends.",
                     {}, <<"accept">>)
              /\ UNCHANGED <<User, nextPk>>

reject_request(request) ==
    LET found == get_object_or_404(filter_FriendshipRequest(request.data)) IN
    IF found.kind # "found" THEN NotFound("reject_request", request, {}, <<>>)
    ELSE LET friendship_request == TheObject(found) IN
         IF ~(friendship_request.to_user = request.user)
         THEN /\ response' = Response("reject_request", request, {}, found.objs,
                     HTTP_400_BAD_REQUEST, "Request for current user not found.",
                     {}, <<>>)
              /\ UNCHANGED db
         ELSE /\ FriendshipRequest' = request_reject_FriendshipRequest(friendship_request)
              /\ response' = Response("reject_request", request, {}, found.objs,
                     HTTP_201_CREATED, "Request rejected, user NOT added to friends.",
                     {}, <<"reject">>)
              /\ UNCHANGED <<User, Friend, nextPk>>

----------------------------------------------------------------------------
(* The state machine: the database after the users signed up, and one      *)
(* action per endpoint, each behind the framework's permission check.      *)

\* user tables: usernames are unique, e-mail addresses need not be
UserTables ==
    {{[pk |-> p, username |-> Usernames[p], email |-> e[p]] : p \in UserPks} :
        e \in [UserPks -> Emails]}

\* the table of Spec: users with an odd pk share one address
SharedEmailUsers ==
    {[pk |-> p, username |-> Usernames[p],
      email |-> IF p % 2 = 1 THEN "x@e" ELSE "y@e"] : p \in UserPks}

Init ==
    /\ User = SharedEmailUsers
    /\ Friend = {}
    /\ FriendshipRequest = {}
    /\ nextPk = 1
    /\ response = NoResponse

\* One HTTP exchange per action: request.user is a user of the table and
\* `denied` are the configured permission classes that refuse the request.
\* A refused request is answered before its body is read.

List ==
    \E user \in UserPks, denied \in SUBSET PERMISSION_CLASSES :
        IF check_permissions(Request(user, NoData, denied))
        THEN \E data \in {NoData} : list(Request(user, data, denied))
        ELSE permission_denied("list", Request(user, NoData, denied), {})

Retrieve ==
    \E user \in UserPks, denied \in SUBSET PERMISSION_CLASSES :
        IF check_permissions(Request(user, NoData, denied))
        THEN \E data \in {NoData} : \E pk \in PkInputs : retrieve(Request(user, data, denied), pk)
        ELSE permission_denied("retrieve", Request(user, NoData, denied), {})

ListRequests ==
    \E user \in UserPks, denied \in SUBSET PERMISSION_CLASSES :
        IF check_permissions(Request(user, NoData, denied))
        THEN \E data \in {NoData} : requests(Request(user, data, denied))
        ELSE permission_denied("requests", Request(user, NoData, denied), {})

ListSentRequests ==
    \E user \in UserPks, denied \in SUBSET PERMISSION_CLASSES :
        IF check_permissions(Request(user, NoData, denied))
        THEN \E data \in {NoData} : sent_requests(Request(user, data, denied))
        ELSE permission_denied("sent_requests", Request(user, NoData, denied), {})

ListRejectedRequests ==
    \E user \in UserPks, denied \in SUBSET PERMISSION_CLASSES :
        IF check_permissions(Request(user, NoData, denied))
        THEN \E data \in {NoData} : rejected_requests(Request(user, data, denied))
        ELSE permission_denied("rejected_requests", Request(user, NoData, denied), {})

AddFriend ==
    \E user \in UserPks, denied \in SUBSET PERMISSION_CLASSES :
        IF check_permissions(Request(user, NoData, denied))
        THEN \E data \in Payloads : add_friend(Request(user, data, denied))
        ELSE permission_denied("add_friend", Request(user, NoData, denied), {})

RemoveFriend ==
    \E user \in UserPks, denied \in SUBSET PERMISSION_CLASSES :
        IF check_permissions(Request(user, NoData, denied))
        THEN \E data \in Payloads : remove_friend(Request(user, data, denied))
        ELSE permission_denied("remove_friend", Request(user, NoData, denied), {})

AcceptRequest ==
    \E user \in UserPks, denied \in SUBSET PERMISSION_CLASSES :
        IF check_permissions(Request(user, NoData, denied))
        THEN \E data \in IdPayloads : accept_request(Request(user, data, denied))
        ELSE permission_denied("accept_request", Request(user, NoData, denied), {})

RejectRequest ==
    \E user \in UserPks, denied \in SUBSET PERMISSION_CLASSES :
        IF check_permissions(Request(user, NoData, denied))
        THEN \E data \in IdPayloads : reject_request(Request(user, data, denied))
        ELSE permission_denied("reject_request", Request(user, NoData, denied), {})

Next ==
    \/ List
    \/ Retrieve
    \/ ListRequests
    \/ ListSentRequests
    \/ ListRejectedRequests
    \/ AddFriend
    \/ RemoveFriend
    \/ AcceptRequest
    \/ RejectRequest

Spec == Init /\ [][Next]_vars

----------------------------------------------------------------------------
(* Target resolution.  get_user_from_friend_data reads only the payload    *)
(* and the user table, so it is explored over every payload and every user *)
(* table, as the first exchange after a database state Spec reaches.       *)

\* alice and bob are friends after one accepted request
FriendsSeed == {<<1, 2>>, <<2, 1>>}

InitLookup ==
    /\ User \in UserTables
    /\ \/ Friend = {} /\ nextPk = 1
       \/ Friend = FriendsSeed /\ nextPk = 2
    /\ FriendshipRequest = {}
    /\ response = NoResponse

LookupAddFriend ==
    /\ response = NoResponse
    /\ \E user \in UserPks, data \in AllPayloads :
            add_friend(Request(user, data, {}))

LookupRemoveFriend ==
    /\ response = NoResponse
    /\ \E user \in UserPks, data \in AllPayloads :
            remove_friend(Request(user, data, {}))

NextLookup == LookupAddFriend \/ LookupRemoveFriend

SpecLookup == InitLookup /\ [][NextLookup]_vars

----------------------------------------------------------------------------
(* Properties.  `response` always describes the exchange of the last step, *)
(* so a property of an endpoint that writes is stated over the step        *)
(* (unprimed: the database before the call) and a property of an endpoint  *)
(* that only reads is stated over the state.                               *)

\* the FriendshipRequest rows, before the step, that the 'id' of the step's
\* payload names
NamedBefore == {q \in FriendshipRequest :
                   "id" \in response'.data.keys /\ q.id = response'.data.id}

\* b appears in a's list result and retrieve of b by a answers 200
FriendsVisible(a, b) ==
    /\ \E x \in list_response(Request(a, NoData, {})).body : x.pk = b
    /\ retrieve_response(Request(a, NoData, {}), b).status = 200

\* C1: accept_request and reject_request act only for the recipient: when
\* the named request is addressed to another user the answer is 400
\* 'Request for current user not found.', neither accept() nor reject() is
\* called and the database is unchanged; when the id names no request the
\* answer is 404 and the database is unchanged.
C1_OnlyRecipientActs ==
    [][ (response'.op \in {"accept_request", "reject_request"}
            /\ response'.denied = {}) =>
          /\ NamedBefore = {} =>
                /\ response'.status = 404
                /\ response'.calls = <<>>
                /\ UNCHANGED db
          /\ \A q \in NamedBefore : q.to_user # response'.user =>
                /\ response'.status = 400
                /\ response'.message = "Request for current user not found."
                /\ response'.calls = <<>>
                /\ UNCHANGED db ]_vars

\* a user who is not the recipient asked to accept or reject an existing
\* request and was answered 400
C1_Witness ==
    /\ response.op \in {"accept_request", "reject_request"}
    /\ response.status = 400
    /\ \E q \in FriendshipRequest :
          /\ "id" \in response.data.keys /\ q.id = response.data.id
          /\ q.to_user # response.user

\* the answer add_friend owes a found target; selfCreates says whether a
\* caller that names itself is owed a request like any other target
AddFriendAnswer(selfCreates) ==
    (response'.op = "add_friend" /\ response'.denied = {}
        /\ Cardinality(response'.target) = 1) =>
    LET from == response'.user
        to == (CHOOSE u \in response'.target : TRUE).pk
        exists == \E q \in FriendshipRequest : q.from_user = from /\ q.to_user = to
        friends == <<to, from>> \in Friend /\ <<from, to>> \in Friend
        created == FriendshipRequest' \ FriendshipRequest
    IN IF friends \/ exists
       THEN /\ response'.status = 400
            /\ response'.message =
                  (IF friends THEN "AlreadyFriendsError" ELSE "AlreadyExistsError")
            /\ created = {}
            /\ UNCHANGED db
       ELSE IF to = from /\ ~selfCreates
       THEN /\ response'.status = 500
            /\ response'.message = "ValidationError"
            /\ created = {}
            /\ UNCHANGED db
       ELSE /\ response'.status = 201
            /\ \E q \in created :
                  /\ created = {q}
                  /\ q.from_user = from /\ q.to_user = to /\ ~q.rejected
                  /\ response'.body = {q}
            /\ Friend' = Friend

\* C2 as stated: AlreadyExistsError and AlreadyFriendsError become 400 with
\* no request created, and every other call with a found target answers 201
\* with the new request from request.user to the target.
C2_AsStated == [][AddFriendAnswer(TRUE)]_vars

\* C2, amended: as stated, except that a target that is the caller makes the
\* library raise ValidationError, which add_friend does not catch: the
\* answer is a server error and no request is created.
C2_AddFriendAnswers == [][AddFriendAnswer(FALSE)]_vars

\* add_friend answered 400 for a pair that are already friends
C2_Witness ==
    /\ response.op = "add_friend"
    /\ response.status = 400
    /\ response.message = "AlreadyFriendsError"
    /\ \E u \in response.target : <<u.pk, response.user>> \in Friend

C4_RejectedNotFriends ==
    [][ (response'.op = "reject_request" /\ response'.status = 201) =>
          /\ NamedBefore # {}
          /\ Friend' = Friend
          /\ \A q \in NamedBefore :
                /\ q.to_user = response'.user
                /\ \E x \in (rejected_requests_response(
                                Request(q.to_user, NoData, {})).body)' :
                      x.id = q.id /\ x.from_user = q.from_user
                                  /\ x.to_user = q.to_user
                /\ ~\E x \in (requests_response(
                                Request(q.to_user, NoData, {})).body)' :
                      x.id = q.id ]_vars

\* reject_request answered 201 for a request that was pending
C4_Witness ==
    /\ response.op = "reject_request"
    /\ response.status = 201
    /\ \E q \in FriendshipRequest :
          q.id = response.data.id /\ q.rejected /\ q.to_user = response.user

\* C5: remove_friend answers 204 'Friend deleted.' exactly when caller and
\* named user were friends, and then neither is a friend of the other; it
\* answers 400 'Friend not found.' exactly when the named user exists and
\* was not a friend, and then friendships and requests are unchanged.
C5_RemoveFriend ==
    [][ (response'.op = "remove_friend" /\ response'.denied = {}) =>
          LET found == Cardinality(response'.target) = 1
              from == response'.user
              to == (CHOOSE u \in response'.target : TRUE).pk
              wereFriends == found /\ (<<to, from>> \in Friend \/ <<from, to>> \in Friend)
          IN /\ response'.status = 204 <=> wereFriends
             /\ response'.status = 204 =>
                   /\ response'.message = "Friend deleted."
                   /\ <<to, from>> \notin Friend' /\ <<from, to>> \notin Friend'
                   /\ \A a, b \in UserPks : {a, b} = {from, to} =>
                         ~FriendsVisible(a, b)'
                   /\ FriendshipRequest' = FriendshipRequest
             /\ response'.status = 400 <=> (found /\ ~wereFriends)
             /\ response'.status = 400 =>
                   /\ response'.message = "Friend not found."
                   /\ UNCHANGED db ]_vars

\* remove_friend answered 204
C5_Witness ==
    /\ response.op = "remove_friend"
    /\ response.status = 204
    /\ \E u \in response.target : u.pk # response.user

\* C6: retrieve answers 200 with the serialized user (pk, username, email)
\* if and only if a user with that pk exists and is a friend of the caller;
\* an existing non-friend gets 400 'Friend relationship not found for user.'
\* with no user fields, a pk that names nobody gets 404.
C6_RetrieveOnlyFriends ==
    (response.op = "retrieve" /\ response.denied = {}) =>
    \A pk \in response.pk :
        LET exists == \E u \in User : u.pk = pk
            friends == <<pk, response.user>> \in Friend
                          /\ <<response.user, pk>> \in Friend
        IN /\ response.status = 200 <=> (exists /\ friends)
           /\ response.status = 200 =>
                 \E u \in User :
                    /\ u.pk = pk
                    /\ response.body = {[pk |-> u.pk, username |-> u.username,
                                         email |-> u.email]}
           /\ (exists /\ ~friends) =>
                 /\ response.status = 400
                 /\ response.message = "Friend relationship not found for user."
                 /\ response.body = {}
           /\ ~exists => response.status = 404 /\ response.body = {}

\* retrieve of a friend answered 200
C6_Witness ==
    /\ response.op = "retrieve"
    /\ response.status = 200
    /\ response.body # {}

\* C7: a request refused by any of the configured permission classes reaches
\* no view: it is answered 403, no library call is made and the database is
\* unchanged.
C7_PermissionFirst ==
    [][ response'.denied \cap PERMISSION_CLASSES # {} =>
          /\ response'.status = 403
          /\ response'.calls = <<>>
          /\ UNCHANGED db ]_vars

\* a refused add_friend, in a state where requests exist
C7_Witness ==
    /\ response.op = "add_friend"
    /\ response.denied # {}
    /\ response.status = 403
    /\ FriendshipRequest # {}

\* the payloads that differ from d in 'id' alone (its presence or its value)
IdVariants(d) ==
    {[d EXCEPT !.keys = @ \ {"id"}, !.id = NoData.id]}
    \cup {[d EXCEPT !.keys = @ \cup {"id"}, !.id = i] : i \in PkInputs}

\* C8: in add_friend the 'id' of the payload never influences the target:
\* every payload that differs in 'id' alone selects the same users (the same
\* target, or the same failure); in remove_friend an 'id', when present,
\* restricts the target to the user with that id.
C8_IdOnlyForRemoval ==
    /\ (response.op = "add_friend") =>
          \A d2 \in IdVariants(response.data) :
              get_user_from_friend_data(d2, FALSE).objs = response.target
    /\ (response.op = "remove_friend" /\ "id" \in response.data.keys) =>
          /\ \A u \in response.target : u.pk = response.data.id
          /\ response.status \in {204, 400} =>
                response.target = {u \in User : u.pk = response.data.id}

\* add_friend created a request although the payload's 'id' names another user
C8_Witness ==
    /\ response.op = "add_friend"
    /\ "id" \in response.data.keys
    /\ response.status = 201
    /\ \E u \in response.target : u.pk # response.data.id

\* the users that satisfy every filter a payload supplies
Satisfying(d, allow_id) ==
    {u \in User :
        /\ "to_user" \in d.keys => u.username = d.to_user
        /\ ("username" \in d.keys /\ "to_user" \notin d.keys) =>
              u.username = d.username
        /\ "email" \in d.keys => u.email = d.email
        /\ (allow_id /\ "id" \in d.keys) => u.pk = d.id}

\* C9: the target is the unique user that satisfies all supplied filters,
\* 'to_user' taking precedence over 'username'; when no user satisfies them
\* the answer is 404 and no library call is made.
C9_TargetResolution ==
    (response.op \in {"add_friend", "remove_friend"}) =>
    LET sat == Satisfying(response.data, response.op = "remove_friend") IN
    /\ sat = {} => response.status = 404 /\ response.calls = <<>>
    /\ Cardinality(sat) = 1 =>
          /\ response.target = sat
          /\ response.calls = <<response.op>>
    /\ response.calls # <<>> => response.target = sat /\ Cardinality(sat) = 1

\* 'to_user' and 'username' name different users and the request went to
\* the user 'to_user' names
C9_Witness ==
    /\ response.op = "add_friend"
    /\ {"username", "to_user"} \subseteq response.data.keys
    /\ response.data.username # response.data.to_user
    /\ \E u \in User : u.username = response.data.username
    /\ response.status = 201
    /\ \E u \in response.target : u.username = response.data.to_user

\* C10 as stated: a payload with none of 'username', 'to_user', 'email'
\* (add_friend) or none of these and no 'id' (remove_friend) is answered 404
\* and nothing is created or removed.
C10_AsStated ==
    ((response.op = "add_friend"
         /\ response.data.keys \cap {"username", "to_user", "email"} = {})
     \/ (response.op = "remove_friend" /\ response.data.keys = {})) =>
    /\ response.status = 404
    /\ FriendshipRequest = {}
    /\ Friend \in {{}, FriendsSeed}

====
